---- MODULE Spec2Model ----
(***************************************************************************)
(* Model of the playlist page: the song list and the player state kept by  *)
(* App (src/App.tsx), the upload input (src/components/UploadZone.tsx),    *)
(* the per-song card with its inline rename (src/components/SongCard.tsx), *)
(* and the single shared HTMLAudioElement the handlers drive.              *)
(*                                                                         *)
(* Handlers run to completion: one action is one whole handler.  Engine    *)
(* notifications (timeupdate, loadedmetadata, ended, a rejected play()     *)
(* promise) wait in a FIFO task queue and are delivered between handlers.  *)
(*                                                                         *)
(* Strings that the code edits (file names, song names, the edit buffer)   *)
(* are sequences of one-character strings.                                 *)
(***************************************************************************)
EXTENDS Integers, Sequences, FiniteSets, TLC

\* ------------------------------------------------------------------ bounds
MaxSongs == 2      \* songs the list may hold
MaxFiles == 2      \* files passed in one upload
MaxPending == 2    \* engine notifications waiting for delivery
MaxDragSongs == 3  \* songs in a list that is only reordered
MaxSeek == 2       \* largest time passed to seek

\* ------------------------------------------------------------------ values
\* `null` of currentSongId; the empty src of a fresh Audio().
Null == <<>>
NoSrc == <<>>
\* audio.duration before the metadata is known.
NaN == -1

\* crypto.randomUUID() and URL.createObjectURL(): the n-th value each hands out.
Uuid(n) == <<"uuid", n>>
ObjectUrl(n) == <<"blob", n>>

\* An id that no song carries.
AbsentId == Uuid(0)

\* The user's files: a name and the length of the audio in it (seconds).
Files ==
  { [name |-> <<"a", ".", "m">>, secs |-> 2],
    [name |-> <<"b">>, secs |-> 1] }

\* Texts typed into the rename input.
NameInputs ==
  { <<>>, <<" ">>, <<"C">>, <<" ", "C", " ">> }

SeqsUpTo(S, n) == UNION { [1..k -> S] : k \in 0..n }

\* ------------------------------------------------------------------ state
VARIABLES
  songs,        \* App: useState<Song[]>
  playerState,  \* App: useState<PlayerState>
  audio,        \* App: audioRef.current, the HTMLAudioElement
  pending,      \* the engine's queued notifications, oldest first
  cards,        \* SongCard local state, by song id: isEditing, editName
  created,      \* how many ids / object URLs have been handed out
  added,        \* history: every file passed to handleFilesAdded, in order
  last          \* history: the handler that ran last, its argument, the
                \* player state it found

vars == <<songs, playerState, audio, pending, cards, created, added, last>>

\* ------------------------------------------------------------------ strings
IsSpace(c) == c = " "

RECURSIVE TrimStart(_)
TrimStart(s) ==
  IF s # <<>> /\ IsSpace(Head(s)) THEN TrimStart(Tail(s)) ELSE s

RECURSIVE TrimEnd(_)
TrimEnd(s) ==
  IF s # <<>> /\ IsSpace(s[Len(s)]) THEN TrimEnd(SubSeq(s, 1, Len(s) - 1)) ELSE s

\* String.prototype.trim
Trim(s) == TrimEnd(TrimStart(s))

\* file.name.replace(/\.[^/.]+$/, ""): a final dot followed by one or more
\* characters that are neither "/" nor "." is cut off.
StripExtension(name) ==
  LET dots == { i \in 1..Len(name) : name[i] = "." }
      starts == { i \in dots :
                    /\ i < Len(name)
                    /\ \A j \in (i + 1)..Len(name) : name[j] \notin {"/", "."} }
  IN IF starts = {} THEN name
     ELSE SubSeq(name, 1, (CHOOSE i \in starts : \A k \in starts : i <= k) - 1)

\* ------------------------------------------------------------------ list
Ids(list) == { list[i].id : i \in 1..Len(list) }

\* Array.prototype.findIndex: the 0-based index of the first song with this
\* id, -1 when there is none.
FindIndex(list, id) ==
  IF \E i \in 1..Len(list) : list[i].id = id
  THEN (CHOOSE i \in 1..Len(list) :
          /\ list[i].id = id
          /\ \A j \in 1..(i - 1) : list[j].id # id) - 1
  ELSE -1

\* Faulty variant of Find: falls back to the first song when none matches.
FindLoose(list, id) ==
  IF FindIndex(list, id) >= 0 THEN <<list[FindIndex(list, id) + 1]>>
  ELSE IF list # <<>> THEN <<list[1]>> ELSE <<>>

\* Array.prototype.find: <<song>>, or <<>> for `undefined`.
Find(list, id) ==
  IF FindIndex(list, id) >= 0 THEN <<list[FindIndex(list, id) + 1]>> ELSE <<>>

\* The start index Array.prototype.splice works at (0-based): a negative
\* start counts from the end, and the result is clamped to 0..length.
SpliceStart(array, start) ==
  IF start < 0
  THEN (IF Len(array) + start < 0 THEN 0 ELSE Len(array) + start)
  ELSE (IF start > Len(array) THEN Len(array) ELSE start)

\* array.splice(start, 1): what is left, and what was removed.
SpliceOut(array, start) ==
  LET k == SpliceStart(array, start)
  IN IF k < Len(array)
     THEN [rest |-> SubSeq(array, 1, k) \o SubSeq(array, k + 2, Len(array)),
           removed |-> <<array[k + 1]>>]
     ELSE [rest |-> array, removed |-> <<>>]

\* Faulty variant of SpliceIn: splice(start, 1, item), which overwrites the
\* element at start.
SpliceOver(array, start, item) ==
  LET k == SpliceStart(array, start)
  IN SubSeq(array, 1, k) \o <<item>> \o SubSeq(array, k + 2, Len(array))

\* array.splice(start, 0, item)
SpliceIn(array, start, item) ==
  LET k == SpliceStart(array, start)
  IN SubSeq(array, 1, k) \o <<item>> \o SubSeq(array, k + 1, Len(array))

\* arrayMove of @dnd-kit/sortable:
\*   newArray.splice(to < 0 ? newArray.length + to : to, 0,
\*                   newArray.splice(from, 1)[0])
\* The insert position is computed before the element is taken out.
ArrayMove(array, from, to) ==
  LET at == IF to < 0 THEN Len(array) + to ELSE to
      out == SpliceOut(array, from)
      item == IF out.removed = <<>> THEN Null ELSE out.removed[1]
  IN SpliceIn(out.rest, at, item)

\* Faulty variant of NewSong: the id is taken from the file name.
NewSongIdFromName(file, n) ==
  [ id |-> <<"name">> \o file.name,
    name |-> StripExtension(file.name),
    url |-> ObjectUrl(n),
    file |-> file ]

\* One element of files.map(...) in handleFilesAdded: n numbers the id and
\* the object URL handed out for this file.
NewSong(file, n) ==
  [ id |-> Uuid(n),
    name |-> StripExtension(file.name),
    url |-> ObjectUrl(n),
    file |-> file ]

\* Faulty variant of AppendSongs: [...newSongs, ...prev]
PrependSongs(prev, files, n) ==
  [i \in 1..Len(files) |-> NewSong(files[i], n + i)] \o prev

\* handleFilesAdded: [...prev, ...newSongs]
AppendSongs(prev, files, n) ==
  prev \o [i \in 1..Len(files) |-> NewSong(files[i], n + i)]

\* handleRename: prev.map(song => song.id === id ? {...song, name} : song)
RenameIn(prev, id, newName) ==
  [i \in 1..Len(prev) |->
     IF prev[i].id = id THEN [prev[i] EXCEPT !.name = newName] ELSE prev[i]]

\* Faulty variant of MoveIn: the two indices are handed over in the wrong
\* order.
MoveInSwapped(items, activeId, overId) ==
  ArrayMove(items, FindIndex(items, overId), FindIndex(items, activeId))

\* handleDragEnd's updater
MoveIn(items, activeId, overId) ==
  ArrayMove(items, FindIndex(items, activeId), FindIndex(items, overId))

\* ------------------------------------------------------------------ engine
\* The HTMLAudioElement, as far as the handlers use it:
\*   src, paused, currentTime, duration   its attributes
\*   ready      the metadata of src is loaded
\*   promise    <<id, branch>> of the handlePlay call whose play() promise
\*              is still unsettled; Null when there is none
AudioInit ==
  [ src |-> NoSrc, paused |-> TRUE, currentTime |-> 0, duration |-> NaN,
    ready |-> FALSE, promise |-> Null ]

Notification(kind, id, arg) == [kind |-> kind, id |-> id, arg |-> arg]

\* The engine is producing sound.
EnginePlaying(a) == a.ready /\ ~a.paused

\* Playback has reached the end of the resource.
EngineEnded(a) == a.ready /\ a.currentTime = a.duration

\* Faulty variant of AudioLoad: the new url is not assigned to src.
AudioLoadKeepSrc(a, url) ==
  [ a EXCEPT !.paused = TRUE, !.currentTime = 0,
             !.duration = NaN, !.ready = FALSE, !.promise = Null ]

\* audio.src = url; audio.load(): the resource is selected afresh.  The
\* element's queued tasks are dropped; an unsettled play() promise is
\* rejected, which its owner learns of in a later task.
AudioLoad(a, url) ==
  [ a EXCEPT !.src = url, !.paused = TRUE, !.currentTime = 0,
             !.duration = NaN, !.ready = FALSE, !.promise = Null ]

PendingAfterLoad(a) ==
  IF a.promise = Null THEN <<>>
  ELSE <<Notification("playfailed", a.promise[1], a.promise[2])>>

\* audio.play(), called for song id in the given branch of handlePlay:
\* playback that has ended starts over.
AudioPlay(a, id, branch) ==
  [ a EXCEPT !.paused = FALSE,
             !.currentTime = IF EngineEnded(a) THEN 0 ELSE a.currentTime,
             !.promise = <<id, branch>> ]

\* audio.pause()
AudioPause(a) == [a EXCEPT !.paused = TRUE, !.promise = Null]

PendingAfterPause(a, q) ==
  IF ~a.paused /\ a.promise # Null
  THEN Append(q, Notification("playfailed", a.promise[1], a.promise[2]))
  ELSE q

\* audio.currentTime = time: the engine keeps the position inside
\* 0..duration once the duration is known.
AudioSeek(a, time) ==
  [ a EXCEPT !.currentTime =
      IF a.ready /\ time > a.duration THEN a.duration
      ELSE IF time < 0 THEN 0 ELSE time ]

\* ------------------------------------------------------------------ player
PlayerInit ==
  [isPlaying |-> FALSE, currentSongId |-> Null, currentTime |-> 0, duration |-> 0]

\* Faulty variant of PlayerResume: the position is reset as for a new song.
PlayerResumeRewind(prev) == [prev EXCEPT !.isPlaying = TRUE, !.currentTime = 0]

\* handlePlay, resume branch: setPlayerState(prev => ({...prev, isPlaying: true}))
PlayerResume(prev) == [prev EXCEPT !.isPlaying = TRUE]

\* Faulty variant of PlayerStart: currentSongId is not set.
PlayerStartNoId(prev, id) == [prev EXCEPT !.isPlaying = TRUE, !.currentTime = 0]

\* Faulty variant of PlayerStart: currentTime is not reset.
PlayerStartKeepTime(prev, id) ==
  [prev EXCEPT !.currentSongId = id, !.isPlaying = TRUE]

\* handlePlay, new-song branch
PlayerStart(prev, id) ==
  [prev EXCEPT !.currentSongId = id, !.isPlaying = TRUE, !.currentTime = 0]

\* Faulty variant of PlayerPause: pausing also rewinds.
PlayerPauseStop(prev) == [prev EXCEPT !.isPlaying = FALSE, !.currentTime = 0]

\* handlePause
PlayerPause(prev) == [prev EXCEPT !.isPlaying = FALSE]

\* Faulty variant of PlayerSeek: currentTime is left to the next timeupdate.
PlayerSeekLazy(prev, time) == prev

\* handleSeek
PlayerSeek(prev, time) == [prev EXCEPT !.currentTime = time]

\* onTimeUpdate
PlayerTimeUpdate(prev, a) == [prev EXCEPT !.currentTime = a.currentTime]

\* onLoadedMetadata
PlayerLoadedMetadata(prev, a) == [prev EXCEPT !.duration = a.duration]

\* Faulty variant of PlayerEnded: the finished song is unloaded.
PlayerEndedClear(prev) ==
  [prev EXCEPT !.isPlaying = FALSE, !.currentTime = 0, !.currentSongId = Null]

\* onEnded
PlayerEnded(prev) == [prev EXCEPT !.isPlaying = FALSE, !.currentTime = 0]

\* Faulty variant of PlayerPlayFailed: the failure reverts isPlaying.
PlayerPlayFailedRevert(prev) == [prev EXCEPT !.isPlaying = FALSE]

\* play().catch(e => console.error(...)): the state is not touched.
PlayerPlayFailed(prev) == prev

\* ------------------------------------------------------------------ cards
\* useState(false), useState(song.name) when the card of a song mounts.
CardInit(song) == [isEditing |-> FALSE, editName |-> song.name]

\* The cards rendered for a list: one per song (key = song.id), the state
\* of a card that was already there is kept.
CardsFor(list, old) ==
  [id \in Ids(list) |->
     IF id \in DOMAIN old THEN old[id] ELSE CardInit(Find(list, id)[1])]

\* Faulty variant of SavedName: the text is tested without trimming it.
SavedNameUntrimmed(editName) == IF editName # <<>> THEN <<editName>> ELSE <<>>

\* handleSaveName: the name handed to onRename, <<name>>, or <<>> when the
\* edit is dropped.
SavedName(editName) == IF Trim(editName) # <<>> THEN <<editName>> ELSE <<>>

\* ------------------------------------------------------------------ history
Ran(op, id, arg) == [op |-> op, id |-> id, arg |-> arg, prev |-> playerState]

\* ------------------------------------------------------------------ Init
Init ==
  /\ songs = <<>>
  /\ playerState = PlayerInit
  /\ audio = AudioInit
  /\ pending = <<>>
  /\ cards = CardsFor(<<>>, <<>>)
  /\ created = 0
  /\ added = <<>>
  /\ last = [op |-> "init", id |-> Null, arg |-> Null, prev |-> PlayerInit]

\* ------------------------------------------------------------------ list actions
\* UploadZone.handleFileChange -> App.handleFilesAdded
HandleFileChange(files) ==
  /\ Len(files) > 0
  /\ Len(songs) + Len(files) <= MaxSongs
  /\ songs' = AppendSongs(songs, files, created)
  /\ created' = created + Len(files)
  /\ added' = added \o files
  /\ cards' = CardsFor(songs', cards)
  /\ last' = Ran("addSongs", Null, files)
  /\ UNCHANGED <<playerState, audio, pending>>

\* Faulty variant of HandleDragEnd: dropping a song also pauses the player.
HandleDragEndStop(activeId, overId) ==
  /\ songs' = IF overId # Null /\ activeId # overId
              THEN MoveIn(songs, activeId, overId)
              ELSE songs
  /\ cards' = CardsFor(songs', cards)
  /\ last' = Ran("moveSong", activeId, overId)
  /\ playerState' = PlayerPause(playerState)
  /\ audio' = AudioPause(audio)
  /\ UNCHANGED <<pending, created, added>>

\* App.handleDragEnd: over is Null when the drag ended over no item.
HandleDragEnd(activeId, overId) ==
  /\ songs' = IF overId # Null /\ activeId # overId
              THEN MoveIn(songs, activeId, overId)
              ELSE songs
  /\ cards' = CardsFor(songs', cards)
  /\ last' = Ran("moveSong", activeId, overId)
  /\ UNCHANGED <<playerState, audio, pending, created, added>>

\* SongCard: the pencil button, setIsEditing(true)
StartEdit(id) ==
  /\ ~cards[id].isEditing
  /\ cards' = [cards EXCEPT ![id].isEditing = TRUE]
  /\ last' = Ran("startEdit", id, Null)
  /\ UNCHANGED <<songs, playerState, audio, pending, created, added>>

\* SongCard: the input's onChange, setEditName(e.target.value)
OnChange(id, text) ==
  /\ cards[id].isEditing
  /\ cards' = [cards EXCEPT ![id].editName = text]
  /\ last' = Ran("type", id, text)
  /\ UNCHANGED <<songs, playerState, audio, pending, created, added>>

\* SongCard.handleSaveName (Enter, blur, the confirm button), which calls
\* App.handleRename when the trimmed text is not empty.
HandleSaveName(id) ==
  /\ cards[id].isEditing
  /\ LET saved == SavedName(cards[id].editName)
     IN /\ songs' = IF saved # <<>> THEN RenameIn(songs, id, saved[1]) ELSE songs
        /\ cards' = [cards EXCEPT
                       ![id].isEditing = FALSE,
                       ![id].editName =
                          IF saved # <<>> THEN @ ELSE Find(songs, id)[1].name]
  /\ last' = Ran("renameSong", id, cards[id].editName)
  /\ UNCHANGED <<playerState, audio, pending, created, added>>

\* SongCard.handleKeyDown, Escape
HandleEscape(id) ==
  /\ cards[id].isEditing
  /\ cards' = [cards EXCEPT ![id].isEditing = FALSE,
                            ![id].editName = Find(songs, id)[1].name]
  /\ last' = Ran("escape", id, Null)
  /\ UNCHANGED <<songs, playerState, audio, pending, created, added>>

\* ------------------------------------------------------------------ player actions
\* App.handlePlay
HandlePlay(id) ==
  /\ LET songToPlay == Find(songs, id)
     IN IF songToPlay = <<>>
        THEN UNCHANGED <<playerState, audio, pending>>
        ELSE IF playerState.currentSongId = id
        THEN /\ audio' = AudioPlay(audio, id, "resume")
             /\ playerState' = PlayerResume(playerState)
             /\ UNCHANGED pending
        ELSE /\ audio' = AudioPlay(AudioLoad(audio, songToPlay[1].url), id, "new")
             /\ pending' = PendingAfterLoad(audio)
             /\ playerState' = PlayerStart(playerState, id)
  /\ last' = Ran("play", id, Null)
  /\ UNCHANGED <<songs, cards, created, added>>

\* App.handlePause
HandlePause ==
  /\ Len(PendingAfterPause(audio, pending)) <= MaxPending
  /\ audio' = AudioPause(audio)
  /\ pending' = PendingAfterPause(audio, pending)
  /\ playerState' = PlayerPause(playerState)
  /\ last' = Ran("pause", Null, Null)
  /\ UNCHANGED <<songs, cards, created, added>>

\* App.handleSeek
HandleSeek(time) ==
  /\ audio' = AudioSeek(audio, time)
  /\ playerState' = PlayerSeek(playerState, time)
  /\ last' = Ran("seek", Null, time)
  /\ UNCHANGED <<songs, pending, cards, created, added>>

\* ------------------------------------------------------------------ engine steps
\* The length of the audio behind an object URL.
SecsOf(list, url) ==
  list[CHOOSE i \in 1..Len(list) : list[i].url = url].file.secs

\* The metadata of the selected resource arrives.
EngineLoaded ==
  /\ audio.src # NoSrc
  /\ ~audio.ready
  /\ Len(pending) < MaxPending
  /\ LET secs == SecsOf(songs, audio.src)
     IN audio' = [audio EXCEPT
                    !.ready = TRUE,
                    !.duration = secs,
                    !.currentTime = IF @ > secs THEN secs ELSE @]
  /\ pending' = Append(pending, Notification("loadedmetadata", Null, Null))
  /\ last' = Ran("engine", Null, "loaded")
  /\ UNCHANGED <<songs, playerState, cards, created, added>>

\* Playback moves on by a second; the play() promise is fulfilled.
EngineTick ==
  /\ EnginePlaying(audio)
  /\ audio.currentTime < audio.duration
  /\ audio' = [audio EXCEPT !.currentTime = @ + 1, !.promise = Null]
  /\ last' = Ran("engine", Null, "tick")
  /\ UNCHANGED <<songs, playerState, pending, cards, created, added>>

\* The engine announces its position.
EnginePosition ==
  /\ audio.src # NoSrc
  /\ Len(pending) < MaxPending
  /\ pending' = Append(pending, Notification("timeupdate", Null, Null))
  /\ last' = Ran("engine", Null, "position")
  /\ UNCHANGED <<songs, playerState, audio, cards, created, added>>

\* Playback reaches the end of the resource and stops.
EngineEnd ==
  /\ EnginePlaying(audio)
  /\ EngineEnded(audio)
  /\ Len(pending) < MaxPending
  /\ audio' = [audio EXCEPT !.paused = TRUE, !.promise = Null]
  /\ pending' = Append(pending, Notification("ended", Null, Null))
  /\ last' = Ran("engine", Null, "end")
  /\ UNCHANGED <<songs, playerState, cards, created, added>>

\* Playback cannot start (not allowed, or the resource cannot be decoded):
\* the play() promise is rejected and the engine stays silent.
EngineFail ==
  /\ audio.promise # Null
  /\ Len(pending) < MaxPending
  /\ audio' = [audio EXCEPT !.paused = TRUE, !.promise = Null]
  /\ pending' = Append(pending, Notification("playfailed", audio.promise[1], audio.promise[2]))
  /\ last' = Ran("engine", Null, "fail")
  /\ UNCHANGED <<songs, playerState, cards, created, added>>

\* The listeners of App's useEffect and the rejection handler of play().
Handle(prev, n, a) ==
  CASE n.kind = "timeupdate" -> PlayerTimeUpdate(prev, a)
    [] n.kind = "loadedmetadata" -> PlayerLoadedMetadata(prev, a)
    [] n.kind = "ended" -> PlayerEnded(prev)
    [] n.kind = "playfailed" -> PlayerPlayFailed(prev)

\* The oldest queued notification is delivered.
Deliver ==
  /\ pending # <<>>
  /\ playerState' = Handle(playerState, Head(pending), audio)
  /\ pending' = Tail(pending)
  /\ last' = Ran(Head(pending).kind, Head(pending).id, Head(pending).arg)
  /\ UNCHANGED <<songs, audio, cards, created, added>>

\* ------------------------------------------------------------------ Next
IdInputs == Ids(songs) \cup {AbsentId}

Next ==
  \/ \E files \in SeqsUpTo(Files, MaxFiles) : HandleFileChange(files)
  \/ \E activeId \in IdInputs, overId \in IdInputs \cup {Null} :
       HandleDragEnd(activeId, overId)
  \/ \E id \in Ids(songs) : StartEdit(id)
  \/ \E id \in Ids(songs), text \in NameInputs : OnChange(id, text)
  \/ \E id \in Ids(songs) : HandleSaveName(id)
  \/ \E id \in Ids(songs) : HandleEscape(id)
  \/ \E id \in IdInputs : HandlePlay(id)
  \/ HandlePause
  \/ \E time \in 0..MaxSeek : HandleSeek(time)
  \/ EngineLoaded
  \/ EngineTick
  \/ EnginePosition
  \/ EngineEnd
  \/ EngineFail
  \/ Deliver

\* The whole page.  The player never reads a song's name or a card, and the
\* cards never read the player, so the two halves below are explored
\* separately; both contain the uploads and the reordering they share.
Spec == Init /\ [][Next]_vars

\* The player with the list it plays from: uploads, reordering, the player's
\* handlers and the engine.
NextPlayer ==
  \/ \E files \in SeqsUpTo(Files, MaxFiles) : HandleFileChange(files)
  \/ \E activeId \in IdInputs, overId \in IdInputs \cup {Null} :
       HandleDragEnd(activeId, overId)
  \/ \E id \in IdInputs : HandlePlay(id)
  \/ HandlePause
  \/ \E time \in 0..MaxSeek : HandleSeek(time)
  \/ EngineLoaded
  \/ EngineTick
  \/ EnginePosition
  \/ EngineEnd
  \/ EngineFail
  \/ Deliver

SpecPlayer == Init /\ [][NextPlayer]_vars

\* The song list with its cards: uploads, reordering, inline rename.
NextList ==
  \/ \E files \in SeqsUpTo(Files, MaxFiles) : HandleFileChange(files)
  \/ \E activeId \in IdInputs, overId \in IdInputs \cup {Null} :
       HandleDragEnd(activeId, overId)
  \/ \E id \in Ids(songs) : StartEdit(id)
  \/ \E id \in Ids(songs), text \in NameInputs : OnChange(id, text)
  \/ \E id \in Ids(songs) : HandleSaveName(id)
  \/ \E id \in Ids(songs) : HandleEscape(id)

SpecList == Init /\ [][NextList]_vars

\* Uploads and renames only: no song is ever dragged.
NextUpload ==
  \/ \E files \in SeqsUpTo(Files, MaxFiles) : HandleFileChange(files)
  \/ \E id \in Ids(songs) : StartEdit(id)
  \/ \E id \in Ids(songs), text \in NameInputs : OnChange(id, text)
  \/ \E id \in Ids(songs) : HandleSaveName(id)
  \/ \E id \in Ids(songs) : HandleEscape(id)

SpecUpload == Init /\ [][NextUpload]_vars

\* Reordering alone, from any list the uploads can build: the songs made
\* of a sequence of files, each with its card, and nothing played yet.
InitDrag ==
  \E files \in SeqsUpTo(Files, MaxDragSongs) :
    /\ songs = AppendSongs(<<>>, files, 0)
    /\ playerState = PlayerInit
    /\ audio = AudioInit
    /\ pending = <<>>
    /\ cards = CardsFor(AppendSongs(<<>>, files, 0), <<>>)
    /\ created = Len(files)
    /\ added = files
    /\ last = [op |-> "addSongs", id |-> Null, arg |-> files, prev |-> PlayerInit]

NextDrag ==
  \E activeId \in IdInputs, overId \in IdInputs \cup {Null} :
    HandleDragEnd(activeId, overId)

SpecDrag == InitDrag /\ [][NextDrag]_vars

\* The list handlers and the player together, on narrow inputs: uploads of
\* one one-second file at a time, drags between songs of the list, the
\* text "C" typed into a card, play of a listed song, seek to second 1.
NextFrame ==
  \/ HandleFileChange(<<[name |-> <<"b">>, secs |-> 1]>>)
  \/ \E activeId \in Ids(songs), overId \in Ids(songs) :
       HandleDragEnd(activeId, overId)
  \/ \E id \in Ids(songs) : StartEdit(id)
  \/ \E id \in Ids(songs) : OnChange(id, <<"C">>)
  \/ \E id \in Ids(songs) : HandleSaveName(id)
  \/ \E id \in Ids(songs) : HandleEscape(id)
  \/ \E id \in Ids(songs) : HandlePlay(id)
  \/ HandlePause
  \/ HandleSeek(1)
  \/ EngineLoaded
  \/ EngineTick
  \/ EnginePosition
  \/ EngineEnd
  \/ EngineFail
  \/ Deliver

SpecFrame == Init /\ [][NextFrame]_vars

\* ------------------------------------------------------------------ claims
\* The song a handler was called for, when the list holds it.
UrlOf(id) == Find(songs, id)[1].url

\* C1: in every reachable state, isPlaying = true implies that
\* currentSongId is set.
C1_PlayingHasSong ==
  playerState.isPlaying => playerState.currentSongId # Null

\* C1 witness: a song is playing after engine notifications were handled.
C1_Witness ==
  /\ playerState.isPlaying
  /\ playerState.currentSongId \in Ids(songs)
  /\ last.op = "timeupdate"
  /\ playerState.currentTime > 0

\* C2: play(B) while another song A is current leaves currentSongId = B,
\* currentTime = 0, isPlaying = true and the engine's source at B's url,
\* whatever A's position was.
C2_SwitchSong ==
  ( /\ last.op = "play"
    /\ last.id \in Ids(songs)
    /\ last.prev.currentSongId # Null
    /\ last.prev.currentSongId # last.id )
  => /\ playerState.currentSongId = last.id
     /\ playerState.currentTime = 0
     /\ playerState.isPlaying
     /\ audio.src = UrlOf(last.id)

\* C2 witness: A was current at a position past 0 when play(B) ran.
C2_Witness ==
  /\ last.op = "play"
  /\ last.id \in Ids(songs)
  /\ last.prev.currentSongId \in Ids(songs) \ {last.id}
  /\ last.prev.currentTime > 0
  /\ playerState.currentSongId = last.id
  /\ playerState.currentTime = 0
  /\ audio.src = UrlOf(last.id)

\* C3: play(id) with id = currentSongId sets isPlaying = true, leaves
\* currentTime, duration and currentSongId as they were, and leaves the
\* engine's source in place and loaded.
C3_Resume ==
  [][ ( /\ last'.op = "play"
        /\ last'.id \in Ids(songs)
        /\ playerState.currentSongId = last'.id )
      => /\ playerState' = [playerState EXCEPT !.isPlaying = TRUE]
         /\ audio'.src = audio.src
         /\ audio'.ready = audio.ready
         /\ audio'.duration = audio.duration ]_vars

\* C3 witness: a paused song at a position past 0 was resumed.
C3_Witness ==
  /\ last.op = "play"
  /\ last.id \in Ids(songs)
  /\ last.prev.currentSongId = last.id
  /\ ~last.prev.isPlaying
  /\ last.prev.currentTime > 0
  /\ playerState.isPlaying
  /\ playerState.currentTime = last.prev.currentTime
  /\ audio.ready

\* C4: "ended" sets isPlaying = false and currentTime = 0 and leaves
\* currentSongId and duration as they were.
C4_Ended ==
  last.op = "ended"
  => /\ ~playerState.isPlaying
     /\ playerState.currentTime = 0
     /\ playerState.currentSongId = last.prev.currentSongId
     /\ playerState.duration = last.prev.duration

\* C4 witness: a playing track of known length ended.
C4_Witness ==
  /\ last.op = "ended"
  /\ last.prev.isPlaying
  /\ last.prev.currentSongId \in Ids(songs)
  /\ last.prev.currentTime > 0
  /\ last.prev.currentTime = last.prev.duration
  /\ playerState.currentSongId = last.prev.currentSongId
  /\ Len(songs) > 1

\* C5: seek(time) sets currentTime to time in the same step and leaves
\* isPlaying, currentSongId and duration as they were.
C5_Seek ==
  last.op = "seek"
  => /\ playerState.currentTime = last.arg
     /\ playerState.isPlaying = last.prev.isPlaying
     /\ playerState.currentSongId = last.prev.currentSongId
     /\ playerState.duration = last.prev.duration

\* C5 witness: a seek while playing moved currentTime with no notification
\* of the engine delivered or waiting.
C5_Witness ==
  /\ last.op = "seek"
  /\ last.prev.isPlaying
  /\ playerState.duration > 0
  /\ last.arg # last.prev.currentTime
  /\ last.arg > 0
  /\ playerState.currentTime = last.arg
  /\ pending = <<>>

\* C6: the failure of the playback start that play(id) asked for leaves
\* PlayerState as it was: isPlaying stays true, currentSongId stays id.
C6_PlayFailed ==
  last.op = "playfailed" => playerState = last.prev

\* C6 witness: the start asked for by a resume failed; isPlaying is still
\* true for that song while the engine is silent.
C6_Witness ==
  /\ last.op = "playfailed"
  /\ last.arg = "resume"
  /\ playerState.isPlaying
  /\ playerState.currentSongId = last.id
  /\ ~EnginePlaying(audio)

\* The same after the new-song branch.
C6_WitnessNew ==
  /\ last.op = "playfailed"
  /\ last.arg = "new"
  /\ playerState.isPlaying
  /\ playerState.currentSongId = last.id
  /\ ~EnginePlaying(audio)

\* C7: play(id) with an id that is not in the list changes neither
\* PlayerState nor the engine.
C7_PlayAbsent ==
  [][ (last'.op = "play" /\ last'.id \notin Ids(songs))
      => /\ playerState' = playerState
         /\ audio' = audio
         /\ pending' = pending ]_vars

\* C7 witness: play of an absent id ran while a song was playing.
C7_Witness ==
  /\ last.op = "play"
  /\ last.id \notin Ids(songs)
  /\ playerState.isPlaying
  /\ EnginePlaying(audio)
  /\ playerState = last.prev

\* C8: pause() stops the engine, sets isPlaying = false and leaves
\* currentSongId, currentTime and duration as they were; with no song
\* loaded it leaves PlayerState as it was.
C8_Pause ==
  last.op = "pause"
  => /\ audio.paused
     /\ ~EnginePlaying(audio)
     /\ playerState = [last.prev EXCEPT !.isPlaying = FALSE]
     /\ (last.prev.currentSongId = Null => playerState = last.prev)

\* C8 witness: a playing song was paused at a position past 0.
C8_Witness ==
  /\ last.op = "pause"
  /\ last.prev.isPlaying
  /\ last.prev.currentTime > 0
  /\ playerState.currentTime = last.prev.currentTime
  /\ playerState.currentSongId = last.prev.currentSongId
  /\ ~playerState.isPlaying

\* The other case of C8: pause() ran with no song loaded.
C8_WitnessIdle ==
  /\ last.op = "pause"
  /\ last.prev.currentSongId = Null
  /\ playerState = last.prev

\* The files of the songs, in list order.
FilesOf(list) == [i \in 1..Len(list) |-> list[i].file]

\* C9: after any sequence of addSongs calls the list holds one song per
\* file passed, in call order and, within a call, in file order.
C9_UploadOrder ==
  /\ Len(songs) = Len(added)
  /\ FilesOf(songs) = added

\* C9 witness: two calls were made; the second appended a different file.
C9_Witness ==
  /\ last.op = "addSongs"
  /\ Len(last.arg) = 1
  /\ Len(songs) = 2
  /\ FilesOf(songs) = added
  /\ songs[1].file # songs[2].file

\* The ids of a list are pairwise distinct.
DistinctIds(list) ==
  \A i, j \in 1..Len(list) : i # j => list[i].id # list[j].id

\* Every song of `before` is in `after` with the id it had; a song is
\* told by its object URL.
IdsKept(before, after) ==
  \A i \in 1..Len(before) :
    \E j \in 1..Len(after) :
      after[j].url = before[i].url /\ after[j].id = before[i].id

\* C10: the ids in the list are pairwise distinct in every reachable state,
\* and no step changes the id of a song that is in the list.
C10_IdsUniqueStable ==
  /\ []DistinctIds(songs)
  /\ [][IdsKept(songs, songs')]_vars

\* C10 witness: the same file was uploaded twice, the two songs were
\* reordered and one renamed; they carry the ids they were created with.
C10_Witness ==
  /\ last.op = "renameSong"
  /\ Len(songs) = 2
  /\ songs[1].file = songs[2].file
  /\ songs[1].name # songs[2].name
  /\ songs[1].id = Uuid(2)
  /\ songs[2].id = Uuid(1)

\* The list without the song of this id.
Without(list, id) == SelectSeq(list, LAMBDA s : s.id # id)

\* C11: for distinct ids both in the list, after moveSong(id, targetId) the
\* song id sits at the index targetId had before the move, and the other
\* songs keep their relative order.
C11_MoveToTarget ==
  [][ ( /\ last'.op = "moveSong"
        /\ last'.id \in Ids(songs)
        /\ last'.arg \in Ids(songs)
        /\ last'.id # last'.arg )
      => /\ FindIndex(songs', last'.id) = FindIndex(songs, last'.arg)
         /\ Len(songs') = Len(songs)
         /\ Without(songs', last'.id) = Without(songs, last'.id) ]_vars

\* C11 witness: the first of three songs was dropped on the last one and
\* now sits there, the two others having moved up by one.
C11_Witness ==
  /\ last.op = "moveSong"
  /\ last.id = Uuid(1)
  /\ last.arg = Uuid(3)
  /\ Len(songs) = 3
  /\ songs[1].id = Uuid(2)
  /\ songs[2].id = Uuid(3)
  /\ songs[3].id = Uuid(1)

\* C12: moveSong(id, targetId) leaves the list as it was when id equals
\* targetId, when there is no target, or when either id is not in the list.
C12_MoveNoOp ==
  [][ ( /\ last'.op = "moveSong"
        /\ \/ last'.id = last'.arg
           \/ last'.arg = Null
           \/ last'.id \notin Ids(songs)
           \/ last'.arg \notin Ids(songs) )
      => songs' = songs ]_vars

\* C13: a rename commit whose text is empty or all white space leaves the
\* song's name as it was and puts that name back into the edit buffer.
C13_EmptyRename ==
  [][ (last'.op = "renameSong" /\ Trim(last'.arg) = <<>>)
      => /\ songs' = songs
         /\ cards'[last'.id].editName = Find(songs, last'.id)[1].name
         /\ ~cards'[last'.id].isEditing ]_vars

\* C13 witness: a song renamed to "C" earlier had a single blank committed;
\* name and buffer are "C".
C13_Witness ==
  /\ last.op = "renameSong"
  /\ last.arg = <<" ">>
  /\ Find(songs, last.id)[1].name = <<"C">>
  /\ cards[last.id].editName = <<"C">>
  /\ ~cards[last.id].isEditing

\* C14: a rename commit whose text is not empty once trimmed but has white
\* space around it stores the trimmed text as the song's name.
C14_StoresTrimmed ==
  (last.op = "renameSong" /\ Trim(last.arg) # <<>>)
  => Find(songs, last.id)[1].name = Trim(last.arg)

\* C15: no step removes a song: every id in the list is in the list after
\* the step, and the list does not get shorter.
C15_NoRemoval ==
  [][ /\ Ids(songs) \subseteq Ids(songs')
      /\ Len(songs') >= Len(songs) ]_vars

\* C15 witness: a drag with an id that no song has reordered a list of two
\* songs; both are still there.
C15_Witness ==
  /\ last.op = "moveSong"
  /\ last.id = AbsentId
  /\ Len(songs) = 2
  /\ songs[1].id = Uuid(2)
  /\ songs[2].id = Uuid(1)

\* C16: under every interleaving of the user's handlers with the queued
\* notifications, whenever isPlaying is false the engine is not playing.
C16_IdleMeansSilent ==
  ~playerState.isPlaying => ~EnginePlaying(audio)

\* C17: whenever currentSongId is set, the engine's source is the url of
\* the song with that id; and the source changes only in a play(id) with
\* id other than currentSongId.
C17_SourceOfCurrent ==
  /\ [](playerState.currentSongId # Null
          => audio.src = UrlOf(playerState.currentSongId))
  /\ [][ audio'.src # audio.src
           => /\ last'.op = "play"
              /\ last'.id # playerState.currentSongId ]_vars

\* C17 witness: the second song was played after the first, then the list
\* was reordered; the source is the second song's url.
C17_Witness ==
  /\ last.op = "moveSong"
  /\ Len(songs) = 2
  /\ songs[1].id = Uuid(2)
  /\ playerState.currentSongId = Uuid(2)
  /\ playerState.duration = songs[2].file.secs
  /\ songs[1].file.secs # songs[2].file.secs
  /\ audio.src = ObjectUrl(2)

\* C18: whenever currentSongId is set, a song with that id is in the list.
C18_CurrentInList ==
  playerState.currentSongId # Null
  => playerState.currentSongId \in Ids(songs)

\* C18 witness: the playing song was dragged to another place and is still
\* the current one.
C18_Witness ==
  /\ last.op = "moveSong"
  /\ last.id = playerState.currentSongId
  /\ playerState.isPlaying
  /\ Len(songs) = 2
  /\ songs[2].id = Uuid(1)
  /\ playerState.currentSongId = Uuid(1)

ListOps == {"addSongs", "moveSong", "renameSong"}

PlayerOps ==
  {"play", "pause", "seek", "timeupdate", "loadedmetadata", "ended", "playfailed"}

\* C19: addSongs, moveSong and renameSong leave PlayerState and the engine
\* (its source, its playing status, its queued notifications) as they
\* were; play, pause, seek and the engine's notifications leave the song
\* list as it was.
C19_Frame ==
  [][ /\ last'.op \in ListOps
        => /\ playerState' = playerState
           /\ audio' = audio
           /\ pending' = pending
      /\ last'.op \in PlayerOps => songs' = songs ]_vars

\* C19 witness: a song was renamed while it was playing, and it plays on.
C19_Witness ==
  /\ last.op = "renameSong"
  /\ last.id = playerState.currentSongId
  /\ Find(songs, last.id)[1].name = <<"C">>
  /\ playerState.isPlaying
  /\ playerState.currentTime > 0
  /\ EnginePlaying(audio)

====
